---- MODULE Spec2Model ----
(***************************************************************************)
(* Model of API/app.py: the agenda and statistics endpoints of the         *)
(* Sonarr/Radarr aggregation service, with the item normalizers, the       *)
(* statistics calculators and the ordered-field formatter they call.       *)
(*                                                                         *)
(* Representation.                                                         *)
(*  - A value that may be missing (dict.get returning None) is a sequence  *)
(*    of length 0 (None) or 1 (the value).                                 *)
(*  - An ISO-8601 date-time string is a record [date, rest]: `date` is the *)
(*    rank of its first 10 characters among the dates in use, `rest` the   *)
(*    rank of the remaining characters (0 = no characters). Python's       *)
(*    string order on such strings is the lexicographic order of the pair, *)
(*    and s[:10] is the date.                                              *)
(*  - Text that the code takes apart or rebuilds character by character    *)
(*    (the fields parameter, keys, labels) is a sequence of one-character  *)
(*    strings; text it only builds is a string.                            *)
(***************************************************************************)
EXTENDS Integers, Sequences, FiniteSets, TLC

VARIABLES
    pc,            \* position of the request being served
    exc,           \* the exception that ended the request, "" if none
    raw_item,      \* normalizers: the raw record passed in
    normalized,    \* normalizers: the call's outcome
    start_date,    \* get_agenda: start_date
    sonarr_data,   \* the handler's sonarr_data, None when the fetch failed
    radarr_data,   \* the handler's radarr_data, None when the fetch failed
    all_items,     \* get_agenda: all_items
    agenda_list,   \* get_agenda: the response body
    decimals,      \* request.args "decimals"
    use_commas,    \* request.args "commas"
    fields_param,  \* request.args "fields"
    spec_tokens,   \* the tokens the client joined into the fields argument
    fetch_error,   \* get_stats: the messages str(e) of the failed fetches
    stats,         \* get_stats: stats
    stats_response \* get_stats: the response body

vars == <<pc, exc, raw_item, normalized, start_date, sonarr_data, radarr_data,
          all_items, agenda_list, decimals, use_commas, fields_param,
          spec_tokens, fetch_error, stats, stats_response>>

normVars == <<raw_item, normalized>>
agendaVars == <<start_date, all_items, agenda_list>>
statsVars == <<decimals, use_commas, fields_param, spec_tokens, fetch_error, stats, stats_response>>
dataVars == <<sonarr_data, radarr_data>>

-----------------------------------------------------------------------------
(* Bounds *)

MaxDate == 3          \* dates in use: 1..MaxDate
MaxRest == 1          \* time-of-day parts in use: 0..MaxRest
MaxCalendar == 2      \* records in one calendar response

-----------------------------------------------------------------------------
(* Optional values *)

None == <<>>
Some(v) == <<v>>
IsNone(o) == o = <<>>
Get(o, default) == IF o = <<>> THEN default ELSE o[1]
Opt(S) == {None} \cup {Some(v) : v \in S}

\* Python truthiness of an optional date-time string: None is falsy, a
\* non-empty string is truthy (every date-time here has its 10 date characters).
Truthy(o) == o # <<>>

DateTimes == [date : 1..MaxDate, rest : 0..MaxRest]

\* s1 < s2 on date-time strings
DTLess(a, b) == a.date < b.date \/ (a.date = b.date /\ a.rest < b.rest)

SeqsUpTo(S, n) == UNION {[1..k -> S] : k \in 0..n}

Digits == <<"0", "1", "2", "3", "4", "5", "6", "7", "8", "9">>

RECURSIVE IntStr(_)
\* str(n) for n >= 0
IntStr(n) == IF n < 10 THEN Digits[n + 1] ELSE IntStr(n \div 10) \o Digits[(n % 10) + 1]

\* f"{n:02d}" for n >= 0
Pad2(n) == IF n < 10 THEN "0" \o IntStr(n) ELSE IntStr(n)

-----------------------------------------------------------------------------
(* Item normalizers *)

SonarrCalendarItems ==
    [series : Opt([title : Opt({"Alpha"})]),
     airDateUtc : Opt(DateTimes),
     seasonNumber : Opt({3}),
     episodeNumber : Opt({7, 100}),
     hasFile : Opt({TRUE})]

RadarrCalendarItems ==
    [inCinemas : Opt(DateTimes),
     digitalRelease : Opt(DateTimes),
     title : Opt({"Gamma"}),
     hasFile : Opt({TRUE})]

\* format(None, "02d")
FormatTypeError == "TypeError: unsupported format string passed to NoneType.__format__"
\* None < "..." and the like
CompareTypeError == "TypeError: '<' not supported between instances"

Raise(e) == [ok |-> FALSE, exc |-> e]
Return(v) == [ok |-> TRUE, value |-> v]

\* f"S{item.get('seasonNumber'):02d}E{item.get('episodeNumber'):02d}": formatting
\* None with the format 02d raises TypeError.
normalize_sonarr_item(item) ==
    LET series_info == Get(item.series, [title |-> None])
        title == Get(series_info.title, "Unknown Show")
    IN  IF IsNone(item.seasonNumber) \/ IsNone(item.episodeNumber)
        THEN Raise(FormatTypeError)
        ELSE Return([release_datetime |-> item.airDateUtc,
                     title |-> Some(title),
                     type |-> "show",
                     has_file |-> Get(item.hasFile, FALSE),
                     details |-> "S" \o Pad2(item.seasonNumber[1])
                                 \o "E" \o Pad2(item.episodeNumber[1])])

normalize_radarr_item_inCinemasFirst(item) ==
    LET digital == ~Truthy(item.inCinemas) /\ Truthy(item.digitalRelease)
    IN  Return([release_datetime |-> IF digital THEN item.digitalRelease ELSE item.inCinemas,
                title |-> item.title,
                type |-> "movie",
                has_file |-> Get(item.hasFile, FALSE),
                details |-> IF digital THEN "Digital Release" ELSE "In Cinemas"])

normalize_radarr_item(item) ==
    LET digital == Truthy(item.digitalRelease)
    IN  Return([release_datetime |-> IF digital THEN item.digitalRelease ELSE item.inCinemas,
                title |-> item.title,
                type |-> "movie",
                has_file |-> Get(item.hasFile, FALSE),
                details |-> IF digital THEN "Digital Release" ELSE "In Cinemas"])

-----------------------------------------------------------------------------
(* Initial state: no request is being served *)

NoItem == [none |-> TRUE]
NoStats == [sonarr |-> <<>>, radarr |-> <<>>, error |-> None]

Init ==
    /\ pc = "idle"
    /\ exc = ""
    /\ raw_item = NoItem
    /\ normalized = NoItem
    /\ start_date = 0
    /\ sonarr_data = None
    /\ radarr_data = None
    /\ all_items = <<>>
    /\ agenda_list = <<>>
    /\ decimals = 1
    /\ use_commas = FALSE
    /\ fields_param = <<>>
    /\ spec_tokens = <<>>
    /\ fetch_error = [sonarr |-> None, radarr |-> None]
    /\ stats = NoStats
    /\ stats_response = NoStats

\* The request's objects are discarded once the response is sent.
Discard ==
    /\ pc \in {"returned", "agenda_done", "stats_done", "failed"}
    /\ pc' = "idle"
    /\ exc' = ""
    /\ raw_item' = NoItem
    /\ normalized' = NoItem
    /\ start_date' = 0
    /\ sonarr_data' = None
    /\ radarr_data' = None
    /\ all_items' = <<>>
    /\ agenda_list' = <<>>
    /\ decimals' = 1
    /\ use_commas' = FALSE
    /\ fields_param' = <<>>
    /\ spec_tokens' = <<>>
    /\ fetch_error' = [sonarr |-> None, radarr |-> None]
    /\ stats' = NoStats
    /\ stats_response' = NoStats

-----------------------------------------------------------------------------
(* The normalizers called on one record *)

CallNormalizeSonarr ==
    /\ pc = "idle"
    /\ \E item \in SonarrCalendarItems :
         /\ raw_item' = [provider |-> "sonarr", item |-> item]
         /\ normalized' = normalize_sonarr_item(item)
         /\ exc' = IF normalize_sonarr_item(item).ok THEN "" ELSE normalize_sonarr_item(item).exc
         /\ pc' = IF normalize_sonarr_item(item).ok THEN "returned" ELSE "failed"
    /\ UNCHANGED <<agendaVars, statsVars, dataVars>>

CallNormalizeRadarr ==
    /\ pc = "idle"
    /\ \E item \in RadarrCalendarItems :
         /\ raw_item' = [provider |-> "radarr", item |-> item]
         /\ normalized' = normalize_radarr_item(item)
         /\ exc' = IF normalize_radarr_item(item).ok THEN "" ELSE normalize_radarr_item(item).exc
         /\ pc' = IF normalize_radarr_item(item).ok THEN "returned" ELSE "failed"
    /\ UNCHANGED <<agendaVars, statsVars, dataVars>>

NextNormalize == CallNormalizeSonarr \/ CallNormalizeRadarr \/ Discard

SpecNormalize == Init /\ [][NextNormalize]_vars

-----------------------------------------------------------------------------
(* get_agenda *)

\* An element of a Python list is a reference to an object: `id` is the
\* object's identity (the order in which the handler created it), `v` its value.
Obj(id, v) == [id |-> id, v |-> v]

Episode(series, air) ==
    [series |-> series, airDateUtc |-> air, seasonNumber |-> Some(3),
     episodeNumber |-> Some(7), hasFile |-> Some(TRUE)]

Movie(cinemas, digital) ==
    [inCinemas |-> cinemas, digitalRelease |-> digital, title |-> Some("Gamma"),
     hasFile |-> None]

DT(d, r) == [date |-> d, rest |-> r]

\* The calendar records the providers answer with in the agenda runs.
SonarrAgendaItems ==
    {Episode(Some([title |-> Some("Alpha")]), Some(dt)) :
        dt \in {DT(1, 0), DT(MaxDate, 0), DT(MaxDate, MaxRest)}}
    \cup {Episode(None, Some(DT(MaxDate, 0))),
          Episode(Some([title |-> Some("Alpha")]), None),
          [Episode(None, Some(DT(1, 0))) EXCEPT !.seasonNumber = None]}

RadarrAgendaItems ==
    {Movie(Some(DT(1, 0)), None),
     Movie(Some(DT(MaxDate, 0)), None),
     Movie(Some(DT(1, 0)), Some(DT(MaxDate, 0))),
     Movie(Some(DT(MaxDate - 1, MaxRest)), None),
     Movie(None, None)}

Key(o) == o.v.release_datetime

\* normalized_item.get("release_datetime") and
\* normalized_item["release_datetime"][:10] >= start_date
KeepRadarr(item, sd) ==
    Truthy(item.release_datetime) /\ item.release_datetime[1].date >= sd

RECURSIVE AppendRadarr(_, _, _, _, _)
\* the loop over radarr_data, from record i on; base is len(sonarr_data)
AppendRadarr(items, data, i, base, sd) ==
    IF i > Len(data) THEN items
    ELSE LET n == normalize_radarr_item(data[i]).value
         IN  AppendRadarr(IF KeepRadarr(n, sd) THEN Append(items, Obj(base + i, n)) ELSE items,
                          data, i + 1, base, sd)

\* list.sort compares keys with <; None < x, x < None and None < None raise
\* TypeError, and every element of a list of two or more takes part in a comparison.
SortRaises(items) == Len(items) >= 2 /\ \E i \in DOMAIN items : IsNone(Key(items[i]))

\* o goes before the elements whose key equals its own
RECURSIVE InsertSortedFirst(_, _)
InsertSortedFirst(sorted, o) ==
    IF sorted = <<>> THEN <<o>>
    ELSE IF ~DTLess(Key(sorted[Len(sorted)])[1], Key(o)[1])
         THEN Append(InsertSortedFirst(SubSeq(sorted, 1, Len(sorted) - 1), o), sorted[Len(sorted)])
         ELSE Append(sorted, o)

RECURSIVE InsertSorted(_, _)
\* o goes after every element whose key is not greater than its own
InsertSorted(sorted, o) ==
    IF sorted = <<>> THEN <<o>>
    ELSE IF DTLess(Key(o)[1], Key(sorted[Len(sorted)])[1])
         THEN Append(InsertSorted(SubSeq(sorted, 1, Len(sorted) - 1), o), sorted[Len(sorted)])
         ELSE Append(sorted, o)

RECURSIVE SortFrom(_, _, _)
SortFrom(sorted, items, i) ==
    IF i > Len(items) THEN sorted
    ELSE SortFrom(InsertSorted(sorted, items[i]), items, i + 1)

\* all_items.sort(key=lambda x: x.get("release_datetime")), when no comparison
\* raises: the stable ascending order (a list of one element is left as it is).
SortItems(items) == IF Len(items) <= 1 THEN items ELSE SortFrom(<<>>, items, 1)

\* grouped_agenda[date_key].append(item), date_key a new key or an old one;
\* a dict keeps its keys in insertion order.
AddToGroup(groups, o) ==
    LET date_key == Key(o)[1].date
    IN  IF \E g \in DOMAIN groups : groups[g].date = date_key
        THEN [g \in DOMAIN groups |->
                 IF groups[g].date = date_key
                 THEN [groups[g] EXCEPT !.items = Append(@, o)]
                 ELSE groups[g]]
        ELSE Append(groups, [date |-> date_key, items |-> <<o>>])

RECURSIVE GroupFrom(_, _, _)
\* the grouping loop: an item without release_datetime is skipped
GroupFrom(groups, items, i) ==
    IF i > Len(items) THEN groups
    ELSE GroupFrom(IF Truthy(Key(items[i])) THEN AddToGroup(groups, items[i]) ELSE groups,
                   items, i + 1)

GroupByDate(items) == GroupFrom(<<>>, items, 1)

\* lines 319-335: sort, group, respond
FinishAgenda(items) ==
    IF SortRaises(items)
    THEN /\ pc' = "failed"
         /\ exc' = CompareTypeError
         /\ all_items' = items
         /\ agenda_list' = <<>>
    ELSE /\ pc' = "agenda_done"
         /\ exc' = ""
         /\ all_items' = SortItems(items)
         /\ agenda_list' = GroupByDate(SortItems(items))

NormalizeAll(data) == [i \in DOMAIN data |-> normalize_sonarr_item(data[i])]

\* lines 278-296: the Sonarr calendar answers
AgendaSonarrOk ==
    /\ pc = "idle"
    /\ \E sd \in 1..MaxDate, data \in SeqsUpTo(SonarrAgendaItems, MaxCalendar) :
         /\ start_date' = sd
         /\ sonarr_data' = Some(data)
         /\ IF \E i \in DOMAIN data : ~NormalizeAll(data)[i].ok
            THEN /\ pc' = "failed"
                 /\ exc' = FormatTypeError
                 /\ all_items' = <<>>
            ELSE /\ pc' = "agenda_radarr"
                 /\ exc' = ""
                 /\ all_items' = [i \in DOMAIN data |-> Obj(i, NormalizeAll(data)[i].value)]
    /\ UNCHANGED <<agenda_list, radarr_data, normVars, statsVars>>

\* lines 278-298: the Sonarr fetch raises RequestException
AgendaSonarrFail ==
    /\ pc = "idle"
    /\ \E sd \in 1..MaxDate : start_date' = sd
    /\ sonarr_data' = None
    /\ pc' = "agenda_radarr"
    /\ UNCHANGED <<exc, all_items, agenda_list, radarr_data, normVars, statsVars>>

\* lines 300-335: the Radarr calendar answers
AgendaRadarrOk ==
    /\ pc = "agenda_radarr"
    /\ \E data \in SeqsUpTo(RadarrAgendaItems, MaxCalendar) :
         /\ radarr_data' = Some(data)
         /\ FinishAgenda(AppendRadarr(all_items, data, 1, Len(all_items), start_date))
    /\ UNCHANGED <<start_date, sonarr_data, normVars, statsVars>>

\* lines 300-335: the Radarr fetch raises RequestException
AgendaRadarrFail ==
    /\ pc = "agenda_radarr"
    /\ radarr_data' = None
    /\ FinishAgenda(all_items)
    /\ UNCHANGED <<start_date, sonarr_data, normVars, statsVars>>

NextAgenda ==
    AgendaSonarrOk \/ AgendaSonarrFail \/ AgendaRadarrOk \/ AgendaRadarrFail \/ Discard

Spec == Init /\ [][NextAgenda]_vars

-----------------------------------------------------------------------------
(* Stats calculators *)

\* Sizes on disk are counted in units of 250,000,000,000 bytes, a quarter of
\* 1000**4: total_size / (1000**4) is total_size / UnitsPerTB, a float that
\* holds the quotient exactly, and the format rounds it half to even.
UnitsPerTB == 4

MaxLibrary == 2       \* records in one library response
MaxDecimals == 2      \* the decimals argument ranges over 0..MaxDecimals

RECURSIVE Pow10(_)
Pow10(d) == IF d = 0 THEN 1 ELSE 10 * Pow10(d - 1)

RECURSIVE PadDigits(_, _)
\* the last d decimal digits of m
PadDigits(m, d) == IF d = 0 THEN "" ELSE PadDigits(m \div 10, d - 1) \o Digits[(m % 10) + 1]

RECURSIVE Zeros(_)
\* '0' * d
Zeros(d) == IF d = 0 THEN "" ELSE "0" \o Zeros(d - 1)

\* f"{total / UnitsPerTB:.{d}f}" for total >= 0
FormatFixed(total, d) ==
    LET num == total * Pow10(d)
        quo == num \div UnitsPerTB
        rem == num % UnitsPerTB
        n == IF 2 * rem > UnitsPerTB \/ (2 * rem = UnitsPerTB /\ quo % 2 = 1)
             THEN quo + 1 ELSE quo
    IN  IntStr(n \div Pow10(d)) \o (IF d = 0 THEN "" ELSE "." \o PadDigits(n % Pow10(d), d))

\* total_size_tb = total_size / (1000**4) if total_size > 0 else 0
\* size_formatted = f"{total_size_tb:.{decimal_places}f} TB"
SizeFormatted(total_size, d) ==
    FormatFixed(IF total_size > 0 THEN total_size ELSE 0, d) \o " TB"

SeriesRecords ==
    [ended : Opt({TRUE}),
     status : Opt({"ended", "continuing"}),
     monitored : Opt({TRUE}),
     statistics : {None,
                   Some([episodeCount |-> None, episodeFileCount |-> None, sizeOnDisk |-> None]),
                   Some([episodeCount |-> Some(10), episodeFileCount |-> Some(4),
                         sizeOnDisk |-> Some(3)])}]

MovieRecords ==
    [hasFile : Opt({TRUE}), monitored : Opt({TRUE}), sizeOnDisk : Opt({1, 5})]

\* series.get("ended", False) or series.get("status") == "ended"
IsEnded(series) == Get(series.ended, FALSE) \/ series.status = Some("ended")

ZeroSonarrCounters ==
    [series |-> 0, ended |-> 0, continuing |-> 0, monitored |-> 0, unmonitored |-> 0,
     episodes |-> 0, files |-> 0, total_size |-> 0]

\* the loop body with `elif status == "continuing"` written as a second `if`
SonarrStepNoElif(acc, series) ==
    LET st == Get(series.statistics,
                  [episodeCount |-> None, episodeFileCount |-> None, sizeOnDisk |-> None])
    IN  [series |-> acc.series,
         ended |-> acc.ended + (IF IsEnded(series) THEN 1 ELSE 0),
         continuing |-> acc.continuing
             + (IF series.status = Some("continuing") THEN 1 ELSE 0),
         monitored |-> acc.monitored + (IF Get(series.monitored, FALSE) THEN 1 ELSE 0),
         unmonitored |-> acc.unmonitored + (IF Get(series.monitored, FALSE) THEN 0 ELSE 1),
         episodes |-> acc.episodes + Get(st.episodeCount, 0),
         files |-> acc.files + Get(st.episodeFileCount, 0),
         total_size |-> acc.total_size + Get(st.sizeOnDisk, 0)]

\* one pass of the loop body, lines 190-207
SonarrStep(acc, series) ==
    LET st == Get(series.statistics,
                  [episodeCount |-> None, episodeFileCount |-> None, sizeOnDisk |-> None])
    IN  [series |-> acc.series,
         ended |-> acc.ended + (IF IsEnded(series) THEN 1 ELSE 0),
         continuing |-> acc.continuing
             + (IF ~IsEnded(series) /\ series.status = Some("continuing") THEN 1 ELSE 0),
         monitored |-> acc.monitored + (IF Get(series.monitored, FALSE) THEN 1 ELSE 0),
         unmonitored |-> acc.unmonitored + (IF Get(series.monitored, FALSE) THEN 0 ELSE 1),
         episodes |-> acc.episodes + Get(st.episodeCount, 0),
         files |-> acc.files + Get(st.episodeFileCount, 0),
         total_size |-> acc.total_size + Get(st.sizeOnDisk, 0)]

RECURSIVE SonarrLoop(_, _, _)
SonarrLoop(acc, data, i) ==
    IF i > Len(data) THEN acc ELSE SonarrLoop(SonarrStep(acc, data[i]), data, i + 1)

calculate_sonarr_stats(series_data, d) ==
    LET acc == SonarrLoop([ZeroSonarrCounters EXCEPT !.series = Len(series_data)],
                          series_data, 1)
    IN  [series |-> acc.series, ended |-> acc.ended, continuing |-> acc.continuing,
         monitored |-> acc.monitored, unmonitored |-> acc.unmonitored,
         episodes |-> acc.episodes, files |-> acc.files,
         size |-> SizeFormatted(acc.total_size, d)]

\* one pass of the loop body, lines 242-254
RadarrStep(acc, movie) ==
    [movies |-> acc.movies,
     files |-> acc.files + (IF Get(movie.hasFile, FALSE) THEN 1 ELSE 0),
     monitored |-> acc.monitored + (IF Get(movie.monitored, FALSE) THEN 1 ELSE 0),
     unmonitored |-> acc.unmonitored + (IF Get(movie.monitored, FALSE) THEN 0 ELSE 1),
     total_size |-> acc.total_size + Get(movie.sizeOnDisk, 0)]

RECURSIVE RadarrLoop(_, _, _)
RadarrLoop(acc, data, i) ==
    IF i > Len(data) THEN acc ELSE RadarrLoop(RadarrStep(acc, data[i]), data, i + 1)

calculate_radarr_stats(movies_data, d) ==
    LET acc == RadarrLoop([movies |-> Len(movies_data), files |-> 0, monitored |-> 0,
                           unmonitored |-> 0, total_size |-> 0], movies_data, 1)
    IN  [movies |-> acc.movies, files |-> acc.files, monitored |-> acc.monitored,
         unmonitored |-> acc.unmonitored, size |-> SizeFormatted(acc.total_size, d)]

\* A calculator called on one library; request.args supplies decimals.
CallCalculateSonarr ==
    /\ pc = "idle"
    /\ \E d \in 0..MaxDecimals, data \in SeqsUpTo(SeriesRecords, MaxLibrary) :
         /\ decimals' = d
         /\ sonarr_data' = Some(data)
         /\ stats' = [stats EXCEPT !.sonarr = calculate_sonarr_stats(data, d)]
    /\ pc' = "returned"
    /\ UNCHANGED <<exc, radarr_data, normVars, agendaVars, use_commas, fields_param,
                   spec_tokens, fetch_error, stats_response>>

CallCalculateRadarr ==
    /\ pc = "idle"
    /\ \E d \in 0..MaxDecimals, data \in SeqsUpTo(MovieRecords, MaxLibrary) :
         /\ decimals' = d
         /\ radarr_data' = Some(data)
         /\ stats' = [stats EXCEPT !.radarr = calculate_radarr_stats(data, d)]
    /\ pc' = "returned"
    /\ UNCHANGED <<exc, sonarr_data, normVars, agendaVars, use_commas, fields_param,
                   spec_tokens, fetch_error, stats_response>>

NextCalculate == CallCalculateSonarr \/ CallCalculateRadarr \/ Discard

SpecCalculate == Init /\ [][NextCalculate]_vars

-----------------------------------------------------------------------------
(* Text as sequences of characters *)

Lower == <<"a", "b", "c", "d", "e", "f", "g", "h", "i", "j", "k", "l", "m", "n", "o", "p", "q", "r", "s", "t", "u", "v", "w", "x", "y", "z">>
Upper == <<"A", "B", "C", "D", "E", "F", "G", "H", "I", "J", "K", "L", "M", "N", "O", "P", "Q", "R", "S", "T", "U", "V", "W", "X", "Y", "Z">>

Pos(alphabet, c) ==
    IF \E i \in DOMAIN alphabet : alphabet[i] = c
    THEN CHOOSE i \in DOMAIN alphabet : alphabet[i] = c
    ELSE 0

IsCased(c) == Pos(Lower, c) > 0 \/ Pos(Upper, c) > 0
ToUpper(c) == IF Pos(Lower, c) > 0 THEN Upper[Pos(Lower, c)] ELSE c
ToLower(c) == IF Pos(Upper, c) > 0 THEN Lower[Pos(Upper, c)] ELSE c

RECURSIVE Join(_)
\* the string made of the characters
Join(cs) == IF cs = <<>> THEN "" ELSE cs[1] \o Join(Tail(cs))

RECURSIVE SplitFrom(_, _, _, _)
\* str.split(sep): cur is the piece being read, i the next character
SplitFrom(cs, sep, i, cur) ==
    IF i > Len(cs) THEN <<cur>>
    ELSE IF cs[i] = sep THEN <<cur>> \o SplitFrom(cs, sep, i + 1, <<>>)
    ELSE SplitFrom(cs, sep, i + 1, Append(cur, cs[i]))

Split(cs, sep) == SplitFrom(cs, sep, 1, <<>>)

RECURSIVE LStrip(_)
LStrip(cs) == IF cs # <<>> /\ cs[1] = " " THEN LStrip(Tail(cs)) ELSE cs

RECURSIVE RStrip(_)
RStrip(cs) ==
    IF cs # <<>> /\ cs[Len(cs)] = " " THEN RStrip(SubSeq(cs, 1, Len(cs) - 1)) ELSE cs

\* str.strip()
Strip(cs) == RStrip(LStrip(cs))

\* str.replace(old, new) for one-character old and new
Replace(cs, old, new) == [i \in DOMAIN cs |-> IF cs[i] = old THEN new ELSE cs[i]]

\* str.title(): a cased character is upper-cased when the character before it
\* is not cased, lower-cased when it is
Title(cs) ==
    [i \in DOMAIN cs |->
        IF i > 1 /\ IsCased(cs[i - 1]) THEN ToLower(cs[i]) ELSE ToUpper(cs[i])]

-----------------------------------------------------------------------------
(* format_ordered_stats *)

IntVal(n) == [t |-> "int", n |-> n, s |-> ""]
StrVal(str) == [t |-> "str", n |-> 0, s |-> str]

RECURSIVE Grouped(_)
\* f"{n:,}" for n >= 0
Grouped(n) ==
    IF n < 1000 THEN IntStr(n) ELSE Grouped(n \div 1000) \o "," \o PadDigits(n % 1000, 3)

\* format_value, lines 78-85, on a counter
format_value(n, commas) == IF commas THEN StrVal(Grouped(n)) ELSE IntVal(n)

Header(v) == [value |-> StrVal(v), type |-> Some("header"), field |-> None]
Counter(n, path, commas) == [value |-> format_value(n, commas), type |-> None, field |-> Some(path)]
Size(v, path) == [value |-> StrVal(v), type |-> None, field |-> Some(path)]

FieldKeys ==
    {"sonarr_header", "sonarr_series", "sonarr_ended", "sonarr_continuing",
     "sonarr_monitored", "sonarr_unmonitored", "sonarr_episodes", "sonarr_files",
     "sonarr_size", "radarr_header", "radarr_movies", "radarr_files",
     "radarr_monitored", "radarr_unmonitored", "radarr_size"}

\* field_map, lines 87-142
field_map(st, commas) ==
    [k \in FieldKeys |->
        CASE k = "sonarr_header" -> Header("TV")
          [] k = "sonarr_series" -> Counter(st.sonarr.series, "sonarr.series", commas)
          [] k = "sonarr_ended" -> Counter(st.sonarr.ended, "sonarr.ended", commas)
          [] k = "sonarr_continuing" -> Counter(st.sonarr.continuing, "sonarr.continuing", commas)
          [] k = "sonarr_monitored" -> Counter(st.sonarr.monitored, "sonarr.monitored", commas)
          [] k = "sonarr_unmonitored" -> Counter(st.sonarr.unmonitored, "sonarr.unmonitored", commas)
          [] k = "sonarr_episodes" -> Counter(st.sonarr.episodes, "sonarr.episodes", commas)
          [] k = "sonarr_files" -> Counter(st.sonarr.files, "sonarr.files", commas)
          [] k = "sonarr_size" -> Size(st.sonarr.size, "sonarr.size")
          [] k = "radarr_header" -> Header("Movies")
          [] k = "radarr_movies" -> Counter(st.radarr.movies, "radarr.movies", commas)
          [] k = "radarr_files" -> Counter(st.radarr.files, "radarr.files", commas)
          [] k = "radarr_monitored" -> Counter(st.radarr.monitored, "radarr.monitored", commas)
          [] k = "radarr_unmonitored" -> Counter(st.radarr.unmonitored, "radarr.unmonitored", commas)
          [] k = "radarr_size" -> Size(st.radarr.size, "radarr.size")]

\* lines 145-152: the key and the custom label of one piece of the split
ParseFieldSpec(piece) ==
    LET field_spec == Strip(piece)
        colon == Pos(field_spec, ":")
    IN  IF colon > 0
        THEN [field_key |-> Strip(SubSeq(field_spec, 1, colon - 1)),
              custom_label |-> Some(Strip(SubSeq(field_spec, colon + 1, Len(field_spec))))]
        ELSE [field_key |-> field_spec, custom_label |-> None]

\* a header takes its value as label even when a custom label is given
ResolveLabelHeaderFirst(field_key, custom_label, item) ==
    IF item.type = Some("header") THEN item.value.s
    ELSE IF custom_label # None /\ custom_label[1] # <<>> THEN Join(custom_label[1])
    ELSE Join(Title(Replace(field_key, "_", " ")))

\* lines 157-165
ResolveLabel(field_key, custom_label, item) ==
    IF custom_label # None /\ custom_label[1] # <<>> THEN Join(custom_label[1])
    ELSE IF item.type # Some("header") THEN Join(Title(Replace(field_key, "_", " ")))
    ELSE item.value.s

WithLabel(item, label) ==
    [value |-> item.value, type |-> item.type, field |-> item.field, label |-> label]

RECURSIVE FormatLoopOnce(_, _, _, _)
\* the loop with a key that is already in ordered_data skipped
FormatLoopOnce(ordered_data, pieces, i, fmap) ==
    IF i > Len(pieces) THEN ordered_data
    ELSE LET p == ParseFieldSpec(pieces[i])
             k == Join(p.field_key)
         IN  FormatLoopOnce(
                 IF k \in DOMAIN fmap
                    /\ ~\E j \in DOMAIN ordered_data :
                          /\ ordered_data[j].field = fmap[k].field
                          /\ ordered_data[j].value = fmap[k].value
                 THEN Append(ordered_data,
                             WithLabel(fmap[k], ResolveLabel(p.field_key, p.custom_label, fmap[k])))
                 ELSE ordered_data,
                 pieces, i + 1, fmap)

RECURSIVE FormatLoop(_, _, _, _)
\* lines 144-166
FormatLoop(ordered_data, pieces, i, fmap) ==
    IF i > Len(pieces) THEN ordered_data
    ELSE LET p == ParseFieldSpec(pieces[i])
             k == Join(p.field_key)
         IN  FormatLoop(
                 IF k \in DOMAIN fmap
                 THEN Append(ordered_data,
                             WithLabel(fmap[k], ResolveLabel(p.field_key, p.custom_label, fmap[k])))
                 ELSE ordered_data,
                 pieces, i + 1, fmap)

format_ordered_stats(st, fields, commas) ==
    [ordered_fields |-> FormatLoop(<<>>, Split(fields, ","), 1, field_map(st, commas)),
     error |-> st.error]

-----------------------------------------------------------------------------
(* get_stats *)

MaxTokens == 2        \* tokens in one fields argument

FetchErrors == {"timeout", "401 Client Error"}

\* lines 363-372: f"0.{'0' * decimal_places} TB"
ZeroSonarrStats(d) ==
    [series |-> 0, ended |-> 0, continuing |-> 0, monitored |-> 0, unmonitored |-> 0,
     episodes |-> 0, files |-> 0, size |-> "0." \o Zeros(d) \o " TB"]

\* lines 389-395
ZeroRadarrStats(d) ==
    [movies |-> 0, files |-> 0, monitored |-> 0, unmonitored |-> 0,
     size |-> "0." \o Zeros(d) \o " TB"]

Fetched(data) == [ok |-> TRUE, data |-> data]
FetchFailed(msg) == [ok |-> FALSE, msg |-> msg]

\* lines 349-372
StatsAfterSonarr(outcome, d) ==
    IF outcome.ok
    THEN [sonarr |-> calculate_sonarr_stats(outcome.data, d), radarr |-> <<>>, error |-> None]
    ELSE [sonarr |-> ZeroSonarrStats(d), radarr |-> <<>>,
          error |-> Some("Sonarr error: " \o outcome.msg)]

\* lines 374-395
StatsAfterRadarr(st, outcome, d) ==
    IF outcome.ok
    THEN [st EXCEPT !.radarr = calculate_radarr_stats(outcome.data, d)]
    ELSE [st EXCEPT !.radarr = ZeroRadarrStats(d),
                    !.error = IF st.error # None
                              THEN Some(st.error[1] \o " | Radarr error: " \o outcome.msg)
                              ELSE Some("Radarr error: " \o outcome.msg)]

\* lines 397-401
StatsResponse(st, fields, commas) ==
    IF fields # <<>> THEN format_ordered_stats(st, fields, commas) ELSE st

\* The tokens of a fields argument: pad puts a space on both sides of the key
\* and of the label.
Token(key, label, pad) == [key |-> key, label |-> label, pad |-> pad]

RenderToken(t) ==
    LET sp == IF t.pad THEN <<" ">> ELSE <<>>
    IN  sp \o t.key \o sp
        \o (IF t.label = None THEN <<>> ELSE <<":">> \o sp \o t.label[1] \o sp)

RECURSIVE Render(_)
\* ",".join(tokens)
Render(toks) ==
    IF toks = <<>> THEN <<>>
    ELSE IF Len(toks) = 1 THEN RenderToken(toks[1])
    ELSE RenderToken(toks[1]) \o <<",">> \o Render(Tail(toks))

K_sonarr_header == <<"s", "o", "n", "a", "r", "r", "_", "h", "e", "a", "d", "e", "r">>
K_sonarr_series == <<"s", "o", "n", "a", "r", "r", "_", "s", "e", "r", "i", "e", "s">>
K_radarr_size == <<"r", "a", "d", "a", "r", "r", "_", "s", "i", "z", "e">>
K_unknown == <<"b", "o", "g", "u", "s">>
L_Shows == <<"S", "h", "o", "w", "s">>
L_colon == <<"a", ":", "b">>

SeriesBusy ==
    [ended |-> Some(TRUE), status |-> Some("continuing"), monitored |-> Some(TRUE),
     statistics |-> Some([episodeCount |-> Some(1234), episodeFileCount |-> Some(1200),
                          sizeOnDisk |-> Some(6)])]
SeriesBare == [ended |-> None, status |-> Some("continuing"), monitored |-> None,
               statistics |-> None]
MovieKept == [hasFile |-> Some(TRUE), monitored |-> Some(TRUE), sizeOnDisk |-> Some(5)]
MovieBare == [hasFile |-> None, monitored |-> None, sizeOnDisk |-> None]

\* The libraries the providers answer with in the get_stats runs.
SonarrLibraries ==
    SeqsUpTo({SeriesBusy, SeriesBare}, MaxLibrary) \cup {[i \in 1..12 |-> SeriesBare]}
RadarrLibraries == SeqsUpTo({MovieKept, MovieBare}, MaxLibrary)

\* The fields arguments of the get_stats runs ("" is the default format).
StatsFields ==
    {<<>>,
     <<Token(K_sonarr_header, None, FALSE), Token(K_sonarr_series, Some(L_Shows), FALSE)>>,
     <<Token(K_radarr_size, None, FALSE)>>}

\* lines 346-372: the Sonarr library answers
StatsSonarrOk ==
    /\ pc = "idle"
    /\ \E d \in 0..MaxDecimals, commas \in BOOLEAN, toks \in StatsFields,
          data \in SonarrLibraries :
         /\ decimals' = d
         /\ use_commas' = commas
         /\ spec_tokens' = toks
         /\ fields_param' = Render(toks)
         /\ sonarr_data' = Some(data)
         /\ stats' = StatsAfterSonarr(Fetched(data), d)
    /\ pc' = "stats_radarr"
    /\ UNCHANGED <<exc, radarr_data, normVars, agendaVars, fetch_error, stats_response>>

\* lines 346-372: the Sonarr fetch raises RequestException
StatsSonarrFail ==
    /\ pc = "idle"
    /\ \E d \in 0..MaxDecimals, commas \in BOOLEAN, toks \in StatsFields,
          msg \in FetchErrors :
         /\ decimals' = d
         /\ use_commas' = commas
         /\ spec_tokens' = toks
         /\ fields_param' = Render(toks)
         /\ fetch_error' = [fetch_error EXCEPT !.sonarr = Some(msg)]
         /\ stats' = StatsAfterSonarr(FetchFailed(msg), d)
    /\ pc' = "stats_radarr"
    /\ UNCHANGED <<exc, sonarr_data, radarr_data, normVars, agendaVars, stats_response>>

\* lines 374-401: the Radarr library answers
StatsRadarrOk ==
    /\ pc = "stats_radarr"
    /\ \E data \in RadarrLibraries :
         /\ radarr_data' = Some(data)
         /\ stats' = StatsAfterRadarr(stats, Fetched(data), decimals)
         /\ stats_response' =
                StatsResponse(StatsAfterRadarr(stats, Fetched(data), decimals),
                              fields_param, use_commas)
    /\ pc' = "stats_done"
    /\ UNCHANGED <<exc, sonarr_data, normVars, agendaVars, decimals, use_commas,
                   fields_param, spec_tokens, fetch_error>>

\* lines 374-401: the Radarr fetch raises RequestException
StatsRadarrFail ==
    /\ pc = "stats_radarr"
    /\ \E msg \in FetchErrors :
         /\ fetch_error' = [fetch_error EXCEPT !.radarr = Some(msg)]
         /\ stats' = StatsAfterRadarr(stats, FetchFailed(msg), decimals)
         /\ stats_response' =
                StatsResponse(StatsAfterRadarr(stats, FetchFailed(msg), decimals),
                              fields_param, use_commas)
    /\ pc' = "stats_done"
    /\ UNCHANGED <<exc, sonarr_data, radarr_data, normVars, agendaVars, decimals,
                   use_commas, fields_param, spec_tokens>>

NextStats == StatsSonarrOk \/ StatsSonarrFail \/ StatsRadarrOk \/ StatsRadarrFail \/ Discard

SpecStats == Init /\ [][NextStats]_vars

-----------------------------------------------------------------------------
(* format_ordered_stats called on one Stats Result and one fields argument *)

FieldTokens ==
    {Token(k, l, pad) :
        k \in {K_sonarr_header, K_sonarr_series, K_radarr_size, K_unknown},
        l \in {None, Some(L_Shows), Some(<<>>)},
        pad \in BOOLEAN}
    \cup {Token(K_sonarr_series, Some(L_colon), FALSE)}

\* Stats Results as get_stats builds them
StatsResults ==
    {StatsAfterRadarr(StatsAfterSonarr(Fetched([i \in 1..12 |-> SeriesBusy]), 1),
                      Fetched(<<MovieKept>>), 1),
     StatsAfterRadarr(StatsAfterSonarr(FetchFailed("timeout"), 1),
                      FetchFailed("timeout"), 1)}

CallFormat ==
    /\ pc = "idle"
    /\ \E st \in StatsResults, commas \in BOOLEAN, toks \in SeqsUpTo(FieldTokens, MaxTokens) :
         /\ stats' = st
         /\ use_commas' = commas
         /\ spec_tokens' = toks
         /\ fields_param' = Render(toks)
         /\ stats_response' = format_ordered_stats(st, Render(toks), commas)
    /\ pc' = "returned"
    /\ UNCHANGED <<exc, dataVars, normVars, agendaVars, decimals, fetch_error>>

NextFormat == CallFormat \/ Discard

SpecFormat == Init /\ [][NextFormat]_vars

-----------------------------------------------------------------------------
(* Properties *)

Count(seq, x) == Cardinality({i \in DOMAIN seq : seq[i] = x})

\* the two sequences hold the same values the same number of times
SameBag(s1, s2) ==
    /\ Len(s1) = Len(s2)
    /\ \A i \in DOMAIN s1 : Count(s1, s1[i]) = Count(s2, s1[i])

RECURSIVE FlattenFrom(_, _)
FlattenFrom(entries, g) ==
    IF g > Len(entries) THEN <<>> ELSE entries[g].items \o FlattenFrom(entries, g + 1)

\* the items of the response, entry after entry
ResponseItems == FlattenFrom(agenda_list, 1)
ResponseValues == [i \in DOMAIN ResponseItems |-> ResponseItems[i].v]

IsShow(n) == n.type = "show"
IsMovie(n) == n.type = "movie"
KeptMovie(n) == n.release_datetime # None /\ n.release_datetime[1].date >= start_date

\* every Provider A record normalized; empty when the fetch failed
NormalizedShows ==
    LET a == Get(sonarr_data, <<>>)
    IN  [i \in DOMAIN a |-> normalize_sonarr_item(a[i]).value]

\* the Provider B records normalized, those dated on or after start_date
NormalizedMovies ==
    LET b == Get(radarr_data, <<>>)
    IN  SelectSeq([i \in DOMAIN b |-> normalize_radarr_item(b[i]).value], KeptMovie)

EntryDatesMatch ==
    \A g \in DOMAIN agenda_list : \A i \in DOMAIN agenda_list[g].items :
        LET rd == agenda_list[g].items[i].v.release_datetime
        IN  rd # None /\ rd[1].date = agenda_list[g].date

\* C1: the items of the returned Agenda Entries are, as a multiset, every
\* normalized Provider A record plus every normalized Provider B record dated on
\* or after start_date, and every entry's date is the date of each of its items.
C1_AgendaHoldsTheInput ==
    pc = "agenda_done" =>
        /\ SameBag(ResponseValues, NormalizedShows \o NormalizedMovies)
        /\ EntryDatesMatch

\* key a is not after key b when an absent key is the smallest
NoneFirstLeq(a, b) == a = None \/ (b # None /\ ~DTLess(b[1], a[1]))

AgendaReachedSort == pc \in {"agenda_done", "failed"} /\ exc # FormatTypeError

\* C2: whatever mix of present and absent release_datetime the combined items
\* have, the sort completes, leaves the items in ascending order with absent
\* keys first, and the request does not end in an error.
C2_SortAcceptsAbsentKeys ==
    AgendaReachedSort =>
        /\ pc = "agenda_done"
        /\ \A i, j \in DOMAIN all_items :
              i < j => NoneFirstLeq(Key(all_items[i]), Key(all_items[j]))

\* C3: each normalizer returns a Normalized Agenda Item for every raw record,
\* whatever fields are missing, with the title fallback "Unknown Show" for
\* Provider A and an absent title for Provider B, and raises nothing.
C3_NormalizersNeverFail ==
    pc \in {"returned", "failed"} =>
        /\ pc = "returned"
        /\ normalized.ok
        /\ (/\ raw_item.provider = "sonarr"
            /\ (raw_item.item.series = None \/ raw_item.item.series[1].title = None))
              => normalized.value.title = Some("Unknown Show")
        /\ (raw_item.provider = "radarr" /\ raw_item.item.title = None)
              => normalized.value.title = None

\* C4 (get_agenda): for every combination of fetch outcomes the response
\* holds exactly the normalized items of the providers whose fetch succeeded:
\* the shows are those of Provider A (none when its fetch failed), the movies
\* those of Provider B (none when its fetch failed).
C4_AgendaDegradesPerProvider ==
    pc = "agenda_done" =>
        /\ SameBag(SelectSeq(ResponseValues, IsShow), NormalizedShows)
        /\ SameBag(SelectSeq(ResponseValues, IsMovie), NormalizedMovies)

SonarrCountersZero(r) ==
    /\ r.series = 0 /\ r.ended = 0 /\ r.continuing = 0 /\ r.monitored = 0
    /\ r.unmonitored = 0 /\ r.episodes = 0 /\ r.files = 0

RadarrCountersZero(r) ==
    r.movies = 0 /\ r.files = 0 /\ r.monitored = 0 /\ r.unmonitored = 0

\* C4 (get_stats): the section of a provider whose fetch failed has all
\* counters zero, the other section is what its calculator computes, and error
\* is null exactly when both fetches succeeded, names each failed provider, and
\* is "<Provider A message> | <Provider B message>" when both failed.
C4_StatsDegradePerProvider ==
    pc = "stats_done" =>
        /\ fetch_error.sonarr # None => SonarrCountersZero(stats.sonarr)
        /\ fetch_error.radarr # None => RadarrCountersZero(stats.radarr)
        /\ fetch_error.sonarr = None =>
              stats.sonarr = calculate_sonarr_stats(sonarr_data[1], decimals)
        /\ fetch_error.radarr = None =>
              stats.radarr = calculate_radarr_stats(radarr_data[1], decimals)
        /\ stats.error = None <=> (fetch_error.sonarr = None /\ fetch_error.radarr = None)
        /\ (fetch_error.sonarr # None /\ fetch_error.radarr = None) =>
              stats.error = Some("Sonarr error: " \o fetch_error.sonarr[1])
        /\ (fetch_error.sonarr = None /\ fetch_error.radarr # None) =>
              stats.error = Some("Radarr error: " \o fetch_error.radarr[1])
        /\ (fetch_error.sonarr # None /\ fetch_error.radarr # None) =>
              stats.error = Some("Sonarr error: " \o fetch_error.sonarr[1] \o " | "
                                 \o "Radarr error: " \o fetch_error.radarr[1])

ZeroSize(d) == "0." \o Zeros(d) \o " TB"

\* C5: for every decimals d >= 0 a calculator on an empty collection yields
\* zero counters and the size "0." + d zeros + " TB", and the zero-filled
\* section of a failed provider is that same result.
C5_ZeroFillIsTheEmptyResult ==
    pc = "stats_done" =>
        /\ sonarr_data = Some(<<>>) =>
              SonarrCountersZero(stats.sonarr) /\ stats.sonarr.size = ZeroSize(decimals)
        /\ radarr_data = Some(<<>>) =>
              RadarrCountersZero(stats.radarr) /\ stats.radarr.size = ZeroSize(decimals)
        /\ fetch_error.sonarr # None => stats.sonarr = calculate_sonarr_stats(<<>>, decimals)
        /\ fetch_error.radarr # None => stats.radarr = calculate_radarr_stats(<<>>, decimals)

EndedFlagOrStatus(rec) == rec.ended = Some(TRUE) \/ rec.status = Some("ended")

SonarrCalculated == pc = "returned" /\ sonarr_data # None

\* C6: calculate_sonarr_stats counts a record as ended when its ended flag is
\* set or its status is "ended", as continuing only when it is not ended and
\* its status is "continuing", and as exactly one of monitored/unmonitored:
\* ended + continuing <= series and monitored + unmonitored = series.
C6_SonarrCountersPartition ==
    SonarrCalculated =>
        LET data == sonarr_data[1]
            r == stats.sonarr
        IN  /\ r.series = Len(data)
            /\ r.ended = Cardinality({i \in DOMAIN data : EndedFlagOrStatus(data[i])})
            /\ r.continuing = Cardinality({i \in DOMAIN data :
                                  /\ ~EndedFlagOrStatus(data[i])
                                  /\ data[i].status = Some("continuing")})
            /\ r.monitored = Cardinality({i \in DOMAIN data : data[i].monitored = Some(TRUE)})
            /\ r.ended + r.continuing <= r.series
            /\ r.monitored + r.unmonitored = r.series

\* a library of two records, one of them both flagged ended and continuing
C6_Witness ==
    /\ SonarrCalculated
    /\ Len(sonarr_data[1]) = MaxLibrary
    /\ \E i \in DOMAIN sonarr_data[1] :
          /\ sonarr_data[1][i].ended = Some(TRUE)
          /\ sonarr_data[1][i].status = Some("continuing")
    /\ stats.sonarr.ended = 1
    /\ stats.sonarr.continuing = 1

RadarrNormalized == pc = "returned" /\ raw_item.provider = "radarr"

\* C7: normalize_radarr_item takes digitalRelease when it is present (with
\* details "Digital Release"), else inCinemas (with details "In Cinemas", the
\* date absent when neither is present), and the type is always "movie".
C7_DigitalReleasePreferred ==
    RadarrNormalized =>
        LET item == raw_item.item
            n == normalized.value
        IN  /\ normalized.ok
            /\ n.type = "movie"
            /\ item.digitalRelease # None =>
                  n.release_datetime = item.digitalRelease /\ n.details = "Digital Release"
            /\ item.digitalRelease = None =>
                  n.release_datetime = item.inCinemas /\ n.details = "In Cinemas"
            /\ (item.digitalRelease = None /\ item.inCinemas = None) =>
                  n.release_datetime = None

\* both dates present and different, the digital one chosen
C7_Witness ==
    /\ RadarrNormalized
    /\ raw_item.item.digitalRelease # None
    /\ raw_item.item.inCinemas # None
    /\ raw_item.item.digitalRelease # raw_item.item.inCinemas
    /\ normalized.value.details = "Digital Release"

Formatted == pc = "returned" /\ stats # NoStats

IsRecognized(t) == Join(t.key) \in FieldKeys

\* the tokens whose key is in the field table, in the order the client wrote them
RecognizedTokens == SelectSeq(spec_tokens, IsRecognized)

\* the key an Ordered Field Entry stands for
EntryKey(e) ==
    IF e.field = None
    THEN (CASE e.value.s = "TV" -> "sonarr_header"
            [] e.value.s = "Movies" -> "radarr_header"
            [] OTHER -> "?")
    ELSE (CASE e.field = Some("sonarr.series") -> "sonarr_series"
            [] e.field = Some("radarr.size") -> "radarr_size"
            [] OTHER -> "?")

\* C8: format_ordered_stats returns one entry per token whose key is in the
\* field table, in the order of the tokens (a repeated key repeats its entry),
\* skips the other tokens, and returns the error of the Stats Result.
C8_EntriesFollowTheTokens ==
    Formatted =>
        /\ Len(stats_response.ordered_fields) = Len(RecognizedTokens)
        /\ \A i \in DOMAIN stats_response.ordered_fields :
              EntryKey(stats_response.ordered_fields[i]) = Join(RecognizedTokens[i].key)
        /\ stats_response.error = stats.error

\* the same key twice, and an error carried through
C8_Witness ==
    /\ Formatted
    /\ Len(spec_tokens) = 2
    /\ spec_tokens[1].key = K_sonarr_series
    /\ spec_tokens[2].key = K_sonarr_series
    /\ Len(stats_response.ordered_fields) = 2
    /\ stats_response.error # None

\* the label auto-derived from a key: underscores to spaces, title-cased
DerivedLabel(key) ==
    CASE key = "sonarr_series" -> "Sonarr Series"
      [] key = "radarr_size" -> "Radarr Size"
      [] OTHER -> "?"

HeaderValue(key) == IF key = "sonarr_header" THEN "TV" ELSE "Movies"

ExampleTokens ==
    <<Token(K_sonarr_header, None, FALSE), Token(K_sonarr_series, Some(L_Shows), FALSE)>>

C10_StableOrder ==
    pc = "agenda_done" =>
        /\ \A g, h \in DOMAIN agenda_list :
              g < h => agenda_list[g].date < agenda_list[h].date
        /\ \A g \in DOMAIN agenda_list : \A i, j \in DOMAIN agenda_list[g].items :
              i < j =>
                  LET a == agenda_list[g].items[i]
                      b == agenda_list[g].items[j]
                  IN  /\ ~DTLess(Key(b)[1], Key(a)[1])
                      /\ Key(a) = Key(b) => a.id < b.id

\* the sort moved an item forward, and equal keys met both inside one
\* provider's batch and across the two
C10_Witness ==
    /\ pc = "agenda_done"
    /\ Len(agenda_list) >= 2
    /\ \E i, j \in DOMAIN ResponseItems : i < j /\ ResponseItems[i].id > ResponseItems[j].id
    /\ \E i, j \in DOMAIN ResponseItems :
          /\ i < j
          /\ Key(ResponseItems[i]) = Key(ResponseItems[j])
          /\ ResponseItems[i].v.type = "show"
          /\ ResponseItems[j].v.type = "show"
    /\ \E i, j \in DOMAIN ResponseItems :
          /\ i < j
          /\ Key(ResponseItems[i]) = Key(ResponseItems[j])
          /\ ResponseItems[i].v.type = "show"
          /\ ResponseItems[j].v.type = "movie"

====
